---- MODULE Spec2Model ----
(***************************************************************************)
(* Model of BTC_DipAnalysis.py: analyze_dips_and_trade, the dip-buying and *)
(* scale-out-selling simulator.  One call is modelled: the parameters are  *)
(* validated, the rows of `data` are folded one at a time into the local   *)
(* state, and the two event lists are returned.                            *)
(*                                                                         *)
(* Python floats are modelled as exact rationals <<n, d>> in lowest terms  *)
(* with d > 0; math.log2 is modelled in thousandths (fixed point).         *)
(***************************************************************************)
EXTENDS Integers, Sequences, FiniteSets, TLC

(***************************************************************************)
(* Bounds of the model.                                                    *)
(***************************************************************************)
\* rows of `data` a run consumes at most
MaxBars == 4

\* calls made one after the other on the same arguments and the same `data`
MaxRuns == 2

(***************************************************************************)
(* Rational arithmetic (the float operators of the source).                *)
(***************************************************************************)
Abs(n) == IF n < 0 THEN -n ELSE n

RECURSIVE GCD(_, _)
GCD(a, b) == IF b = 0 THEN a ELSE GCD(b, a % b)

\* the rational n/d (d # 0) in lowest terms with a positive denominator
Rat(n, d) ==
    LET g == GCD(Abs(n), Abs(d))
        sgn == IF d < 0 THEN -1 ELSE 1
    IN  <<(sgn * n) \div g, Abs(d) \div g>>

Float(i) == <<i, 1>>

RAdd(a, b) ==
    LET g == GCD(a[2], b[2])
    IN  Rat(a[1] * (b[2] \div g) + b[1] * (a[2] \div g), (a[2] \div g) * b[2])

RNeg(a) == <<-a[1], a[2]>>

RSub(a, b) == RAdd(a, RNeg(b))

RMul(a, b) ==
    LET g1 == GCD(Abs(a[1]), b[2])
        g2 == GCD(Abs(b[1]), a[2])
    IN  Rat((a[1] \div g1) * (b[1] \div g2), (a[2] \div g2) * (b[2] \div g1))

\* a / b, b # 0
RDiv(a, b) == RMul(a, Rat(b[2], b[1]))

RLt(a, b) == a[1] * b[2] < b[1] * a[2]

RLeq(a, b) == a[1] * b[2] <= b[1] * a[2]

Zero == Float(0)

One == Float(1)

(***************************************************************************)
(* math.log2(n) for n = 2 .. 9, in thousandths, rounded to nearest.        *)
(***************************************************************************)
Log2Table == <<1000, 1585, 2000, 2322, 2585, 2807, 3000, 3170>>

Log2(n) == Rat(Log2Table[n - 1], 1000)

(***************************************************************************)
(* Inputs: the arguments of the call and the rows of `data`.               *)
(***************************************************************************)
\* dip_fraction: 0, 1 and 3/2 are outside (0, 1)
DipFractions == {Rat(0, 1), Rat(1, 2), Rat(3, 4), Rat(1, 1), Rat(3, 2)}

\* profit_fraction: 1/2 and 1 are not greater than 1
ProfitFractions == {Rat(1, 2), Rat(1, 1), Rat(3, 2), Rat(2, 1)}

\* sell_fraction: 0 and 3/2 are outside (0, 1]
SellFractions == {Rat(0, 1), Rat(1, 2), Rat(1, 1), Rat(3, 2)}

DollarAmounts == {Float(1), Float(1000)}

\* (high, low) of a well-formed bar: positive, high >= low
Prices == {<<2, 1>>, <<3, 1>>, <<3, 3>>, <<6, 1>>, <<6, 3>>}

\* a shorter series of well-formed bars, for the repeated call
FewPrices == {<<2, 1>>, <<3, 1>>, <<6, 3>>}

\* a series that also holds bars with a low of 0 and a negative low, which
\* BTCData.from_csv_row (float(row['low'])) and load_btc_data let through
RawPrices == {<<2, 1>>, <<3, 1>>, <<6, 3>>, <<2, 0>>, <<3, -1>>}

\* the bars and arguments of scenario A: highs 100, 110, lows 100, 95,
\* dip fraction 0.975, 1000 dollars per purchase
ScenarioPrices == {<<100, 100>>, <<110, 95>>}

ScenarioDipFraction == Rat(39, 40)

ScenarioDollarAmount == Float(1000)

VARIABLES
    dip_fraction, profit_fraction, dollar_amount, sell_fraction, \* arguments
    pc,                    \* "validate", "loop", "returned", "raised"
    data,                  \* the rows consumed so far, in order
    purchases, sales,      \* the two event lists
    all_time_high, current_btc_holdings, sell_target,
    allow_purchase, ready_to_sell,
    result,                \* what the caller receives
    events,                \* history: every event in emission order
    marks,                 \* history: per row, the branches it took and the
                           \* all-time high it left
    source,                \* the (high, low) pairs the loaded series is made of
    run,                   \* 1 for the first call, 2 for the call repeated
    prior                  \* history: `data` and outcome of the call before

args == <<dip_fraction, profit_fraction, dollar_amount, sell_fraction>>

locals == <<purchases, sales, all_time_high, current_btc_holdings, sell_target,
            allow_purchase, ready_to_sell>>

vars == <<args, pc, data, locals, result, events, marks, source, run, prior>>

Pending == [kind |-> "pending", purchases |-> <<>>, sales |-> <<>>]

NoPrior == [data |-> <<>>, result |-> Pending, events |-> <<>>]

(***************************************************************************)
(* The tests and assignments of analyze_dips_and_trade, one per operator.  *)
(***************************************************************************)
\* line 45: 0 < dip_fraction < 1
DipFractionOk(d) == RLt(Zero, d) /\ RLt(d, One)

\* line 47: the call raises when profit_fraction <= 1
ProfitFractionOk(p) == ~ RLeq(p, One)

\* the upper end of the range left unchecked
SellFractionNoUpper(s) == RLt(Zero, s)

\* line 49: 0 < sell_fraction <= 1
SellFractionOk(s) == RLt(Zero, s) /\ RLeq(s, One)

\* every row taken as a new high
IsNewHighAlways(high, ath) == TRUE

\* the comparison the wrong way round
IsNewHighReversed(high, ath) == RLt(high, ath)

\* lines 52-53
InitialList == <<>>

\* line 54
InitialHigh == Zero

\* the holdings of the call before, kept
StaleHoldings == current_btc_holdings

\* line 55
InitialHoldings == Zero

\* line 56
InitialSellTarget == Zero

\* line 57
InitialAllow == FALSE

\* line 58
InitialReady == FALSE

\* line 62: row.high > all_time_high
IsNewHigh(high, ath) == RLt(ath, high)

\* the comparison with the sell target left out
SellConditionNoTarget(ready, holdings, high, target) ==
    ready /\ RLt(Zero, holdings)

\* lines 67-68: ready_to_sell and current_btc_holdings > 0, row.high >= sell_target
SellCondition(ready, holdings, high, target) ==
    ready /\ RLt(Zero, holdings) /\ RLeq(target, high)

\* the whole holdings sold, whatever the sell fraction
BtcToSellAll(holdings, s) == holdings

\* line 70
BtcToSell(holdings, s) == RMul(holdings, s)

\* line 71
DollarsReceived(btc_to_sell, high) == RMul(btc_to_sell, high)

\* the sold amount not taken off the holdings
HoldingsKept(holdings, btc_to_sell) == holdings

\* the subtraction with its operands swapped
HoldingsReversed(holdings, btc_to_sell) == RSub(btc_to_sell, holdings)

\* lines 78 and 80: current_btc_holdings - btc_to_sell
HoldingsAfterSale(holdings, btc_to_sell) == RSub(holdings, btc_to_sell)

\* selling left armed after a sale
ReadyKeptAfterSale == TRUE

\* line 81
ReadyAfterSale == FALSE

\* line 82
AllowAfterSale == TRUE

\* the dip target taken as the all-time high itself
DipTargetWhole(ath, d) == ath

\* line 85
DipTarget(ath, d) == RMul(ath, d)

\* the dip test left out
BuyConditionNoDip(allow, low, dip_target) == allow

\* line 86: allow_purchase and row.low <= dip_target
BuyCondition(allow, low, dip_target) == allow /\ RLeq(low, dip_target)

\* the size not scaled by the number of sales
PurchaseAmountFlat(amount, sales_so_far) == amount

\* line 88: dollar_amount * math.log2(len(sales) + 2)
PurchaseAmount(amount, sales_so_far) == RMul(amount, Log2(Len(sales_so_far) + 2))

\* line 90: purchase_amount / row.low
BtcAmount(purchase_amount, low) == RDiv(purchase_amount, low)

\* line 96: the 'dollars_spent' entry of the purchase record
DollarsSpent(amount, purchase_amount) == amount

\* the holdings assigned, not added to
HoldingsReplaced(holdings, btc_amount) == btc_amount

\* lines 97 and 99: current_btc_holdings + btc_amount
HoldingsAfterPurchase(holdings, btc_amount) == RAdd(holdings, btc_amount)

\* buying left armed after a purchase
AllowKeptAfterPurchase == TRUE

\* line 100
AllowAfterPurchase == FALSE

\* line 101
ReadyAfterPurchase == TRUE

\* the target set to the all-time high itself
SellTargetNoProfit(ath, p) == ath

\* line 102
SellTarget(ath, p) == RMul(ath, p)

\* lines 72-79
SaleRecord(row, ath, btc_to_sell, holdings) ==
    [date |-> row.date, price |-> row.high, all_time_high |-> ath,
     btc_sold |-> btc_to_sell,
     dollars_received |-> DollarsReceived(btc_to_sell, row.high),
     btc_remaining |-> HoldingsAfterSale(holdings, btc_to_sell)]

\* lines 91-98
PurchaseRecord(row, ath, btc_amount, amount, purchase_amount, holdings) ==
    [date |-> row.date, price |-> row.low, all_time_high |-> ath,
     btc_purchased |-> btc_amount,
     dollars_spent |-> DollarsSpent(amount, purchase_amount),
     total_btc_after_purchase |-> HoldingsAfterPurchase(holdings, btc_amount)]

(***************************************************************************)
(* The state before the call: the arguments are any of the input values.   *)
(***************************************************************************)
\* nothing has run yet
Start ==
    /\ pc = "validate"
    /\ data = <<>>
    /\ purchases = <<>>
    /\ sales = <<>>
    /\ all_time_high = Zero
    /\ current_btc_holdings = Zero
    /\ sell_target = Zero
    /\ allow_purchase = FALSE
    /\ ready_to_sell = FALSE
    /\ result = Pending
    /\ events = <<>>
    /\ marks = <<>>
    /\ run = 1
    /\ prior = NoPrior

Init ==
    /\ dip_fraction \in DipFractions
    /\ profit_fraction \in ProfitFractions
    /\ dollar_amount \in DollarAmounts
    /\ sell_fraction \in SellFractions
    /\ source = Prices
    /\ Start

(***************************************************************************)
(* Lines 45-58: the three range checks, then the initial local state.      *)
(***************************************************************************)
Validate ==
    /\ pc = "validate"
    /\ IF /\ DipFractionOk(dip_fraction)
          /\ ProfitFractionOk(profit_fraction)
          /\ SellFractionOk(sell_fraction)
       THEN /\ pc' = "loop"
            /\ purchases' = InitialList
            /\ sales' = InitialList
            /\ all_time_high' = InitialHigh
            /\ current_btc_holdings' = InitialHoldings
            /\ sell_target' = InitialSellTarget
            /\ allow_purchase' = InitialAllow
            /\ ready_to_sell' = InitialReady
            /\ result' = result
       ELSE /\ pc' = "raised"
            /\ result' = [Pending EXCEPT !.kind = "ValueError"]
            /\ UNCHANGED locals
    /\ UNCHANGED <<args, data, events, marks, source, run, prior>>

(***************************************************************************)
(* Lines 60-102: one iteration of the loop, on `row`.  A row whose low is  *)
(* 0 makes line 90 divide by zero when the buy check passes: the call then *)
(* raises with whatever the iteration had already assigned.                *)
(***************************************************************************)
Iterate(row) ==
    LET new_high == IsNewHigh(row.high, all_time_high)
        ath == IF new_high THEN row.high ELSE all_time_high
        allow1 == IF new_high THEN TRUE ELSE allow_purchase
        sell == SellCondition(ready_to_sell, current_btc_holdings, row.high, sell_target)
        btc_to_sell == BtcToSell(current_btc_holdings, sell_fraction)
        sale == SaleRecord(row, ath, btc_to_sell, current_btc_holdings)
        sales1 == IF sell THEN Append(sales, sale) ELSE sales
        holdings1 == IF sell THEN HoldingsAfterSale(current_btc_holdings, btc_to_sell)
                             ELSE current_btc_holdings
        ready1 == IF sell THEN ReadyAfterSale ELSE ready_to_sell
        allow2 == IF sell THEN AllowAfterSale ELSE allow1
        events1 == IF sell THEN Append(events, [kind |-> "sale", ev |-> sale]) ELSE events
        dip_target == DipTarget(ath, dip_fraction)
        buy == BuyCondition(allow2, row.low, dip_target)
        purchase_amount == PurchaseAmount(dollar_amount, sales1)
        fault == buy /\ row.low = Zero
        btc_amount == BtcAmount(purchase_amount, row.low)
        purchase == PurchaseRecord(row, ath, btc_amount, dollar_amount,
                                   purchase_amount, holdings1)
        bought == buy /\ ~ fault
    IN  /\ data' = Append(data, row)
        /\ all_time_high' = ath
        /\ sales' = sales1
        /\ purchases' = IF bought THEN Append(purchases, purchase) ELSE purchases
        /\ current_btc_holdings' =
               IF bought THEN HoldingsAfterPurchase(holdings1, btc_amount) ELSE holdings1
        /\ allow_purchase' = IF bought THEN AllowAfterPurchase ELSE allow2
        /\ ready_to_sell' = IF bought THEN ReadyAfterPurchase ELSE ready1
        /\ sell_target' = IF bought THEN SellTarget(ath, profit_fraction) ELSE sell_target
        /\ events' = IF bought
                        THEN Append(events1, [kind |-> "purchase", ev |-> purchase])
                        ELSE events1
        /\ marks' = Append(marks, [new_high |-> new_high, sold |-> sell, bought |-> bought,
                                   ath |-> ath])
        /\ IF fault
              THEN /\ pc' = "raised"
                   /\ result' = [Pending EXCEPT !.kind = "ZeroDivisionError"]
              ELSE /\ pc' = pc
                   /\ result' = result

\* the next row of `data`: dates are the positions in the series.  The first
\* call reads any series over `source`, a repeated call the same series again
Rows ==
    IF run = 1
       THEN {[date |-> Len(data) + 1, high |-> Float(hl[1]), low |-> Float(hl[2])] :
                hl \in source}
       ELSE {prior.data[k] : k \in {Len(data) + 1} \cap DOMAIN prior.data}

\* the loop has consumed all of `data`
Exhausted == IF run = 1 THEN TRUE ELSE Len(data) = Len(prior.data)

ProcessRow ==
    /\ pc = "loop"
    /\ Len(data) < MaxBars
    /\ \E row \in Rows : Iterate(row)
    /\ UNCHANGED <<args, source, run, prior>>

(***************************************************************************)
(* Line 104: `data` is exhausted, the two lists go to the caller.          *)
(***************************************************************************)
Return ==
    /\ pc = "loop"
    /\ Exhausted
    /\ pc' = "returned"
    /\ result' = [kind |-> "returned", purchases |-> purchases, sales |-> sales]
    /\ UNCHANGED <<args, data, locals, events, marks, source, run, prior>>

Next == Validate \/ ProcessRow \/ Return

Spec == Init /\ [][Next]_vars

(***************************************************************************)
(* The caller runs the simulator again on the same arguments and the same  *)
(* `data` (lines 126-128, a second time).  What the earlier call left in   *)
(* the locals stays where it is until lines 52-58 assign them.             *)
(***************************************************************************)
CallAgain ==
    /\ pc \in {"returned", "raised"}
    /\ run < MaxRuns
    /\ run' = run + 1
    /\ prior' = [data |-> data, result |-> result, events |-> events]
    /\ pc' = "validate"
    /\ data' = <<>>
    /\ result' = Pending
    /\ events' = <<>>
    /\ marks' = <<>>
    /\ UNCHANGED <<args, locals, source>>

InitTwice ==
    /\ dip_fraction \in DipFractions
    /\ profit_fraction \in ProfitFractions
    /\ dollar_amount \in DollarAmounts
    /\ sell_fraction \in SellFractions
    /\ source = FewPrices
    /\ Start

NextTwice == Validate \/ ProcessRow \/ Return \/ CallAgain

SpecTwice == InitTwice /\ [][NextTwice]_vars

(***************************************************************************)
(* One call on a series over the bars of scenario A, with its arguments.   *)
(***************************************************************************)
InitScenario ==
    /\ dip_fraction = ScenarioDipFraction
    /\ profit_fraction \in ProfitFractions
    /\ dollar_amount = ScenarioDollarAmount
    /\ sell_fraction \in SellFractions
    /\ source = ScenarioPrices
    /\ Start

SpecScenario == InitScenario /\ [][Next]_vars

(***************************************************************************)
(* One call on a series that load_btc_data built from a file holding bars  *)
(* with a non-positive low.                                                *)
(***************************************************************************)
InitRaw ==
    /\ dip_fraction \in DipFractions
    /\ profit_fraction \in ProfitFractions
    /\ dollar_amount \in DollarAmounts
    /\ sell_fraction \in SellFractions
    /\ source = RawPrices
    /\ Start

SpecRaw == InitRaw /\ [][Next]_vars

(***************************************************************************)
(* The buy-only variant of the simulator (variant 1), which this           *)
(* repository's source file does not hold; from its contract: ath starts   *)
(* at 0 and canBuy false; per row, a high above ath sets ath and canBuy;   *)
(* then, if canBuy and low <= ath * d, a Purchase at the low of A / low    *)
(* BTC is emitted and canBuy is cleared.  BuyOnly(k) is its state after    *)
(* the first k rows of `data`.                                             *)
(***************************************************************************)
RECURSIVE BuyOnly(_)
BuyOnly(k) ==
    IF k = 0
       THEN [ath |-> Zero, canBuy |-> FALSE, purchases |-> <<>>]
       ELSE LET s == BuyOnly(k - 1)
                row == data[k]
                new_high == RLt(s.ath, row.high)
                ath == IF new_high THEN row.high ELSE s.ath
                canBuy == new_high \/ s.canBuy
                buy == canBuy /\ RLeq(row.low, RMul(ath, dip_fraction))
                purchase == [date |-> row.date, price |-> row.low,
                             all_time_high |-> ath,
                             btc_purchased |-> RDiv(dollar_amount, row.low),
                             dollars_spent |-> dollar_amount]
            IN  [ath |-> ath,
                 canBuy |-> IF buy THEN FALSE ELSE canBuy,
                 purchases |-> IF buy THEN Append(s.purchases, purchase)
                                      ELSE s.purchases]


(***************************************************************************)
(* Helpers of the properties.                                              *)
(***************************************************************************)
Last(seq) == seq[Len(seq)]

\* the call got past the range checks
Running == pc \in {"loop", "returned"}

\* the number of Sale events among the first j events of the log evs
SalesIn(evs, j) == Cardinality({i \in 1..j : evs[i].kind = "sale"})

\* the number of Sale events among the first j events emitted
SalesUpTo(j) == SalesIn(events, j)

\* a step that appends a Sale / a Purchase
SaleStep == Len(sales') = Len(sales) + 1

PurchaseStep == Len(purchases') = Len(purchases) + 1

(***************************************************************************)
(* C1: a call whose dip fraction is not in (0,1), or whose profit fraction *)
(* is <= 1, or whose sell fraction is not in (0,1], fails with the         *)
(* invalid-parameter error before any row is processed; no purchase or     *)
(* sale is emitted or returned.                                            *)
(***************************************************************************)
ArgsOutOfRange ==
    \/ dip_fraction[1] <= 0
    \/ dip_fraction[1] >= dip_fraction[2]
    \/ profit_fraction[1] <= profit_fraction[2]
    \/ sell_fraction[1] <= 0
    \/ sell_fraction[1] > sell_fraction[2]

C1_InvalidParameterFailsFast ==
    ArgsOutOfRange =>
        /\ pc \in {"validate", "raised"}
        /\ pc = "raised" => result.kind = "ValueError"
        /\ result.purchases = <<>> /\ result.sales = <<>>
        /\ data = <<>> /\ events = <<>> /\ purchases = <<>> /\ sales = <<>>

\* the call has failed on a sell fraction above 1 alone
C1_Witness ==
    /\ pc = "raised"
    /\ result.kind = "ValueError"
    /\ dip_fraction = Rat(1, 2)
    /\ profit_fraction = Rat(3, 2)
    /\ sell_fraction = Rat(3, 2)

(***************************************************************************)
(* C2: within one row the sell check runs before the buy check: when a     *)
(* single row emits both a Sale and a Purchase, the Sale is emitted first, *)
(* the Purchase records holdings (before the row - sold) + bought, and its *)
(* size uses a sale count that includes that row's Sale.                   *)
(***************************************************************************)
C2_SellBeforeBuy ==
    [][(SaleStep /\ PurchaseStep) =>
        LET s == Last(sales')
            p == Last(purchases')
            n == Len(events')
        IN  /\ n = Len(events) + 2
            /\ events'[n - 1] = [kind |-> "sale", ev |-> s]
            /\ events'[n] = [kind |-> "purchase", ev |-> p]
            /\ s.date = p.date
            /\ p.total_btc_after_purchase =
                   RAdd(RSub(current_btc_holdings, s.btc_sold), p.btc_purchased)
            /\ p.btc_purchased =
                   RDiv(RMul(dollar_amount, Log2((Len(sales) + 1) + 2)), p.price)
            /\ SalesIn(events', n - 1) = Len(sales) + 1
      ]_vars

\* the last row emitted a Sale and then a Purchase
C2_Witness ==
    /\ Len(events) >= 2
    /\ events[Len(events) - 1].kind = "sale"
    /\ Last(events).kind = "purchase"
    /\ events[Len(events) - 1].ev.date = Last(events).ev.date
    /\ RLt(Zero, Last(events).ev.total_btc_after_purchase)

(***************************************************************************)
(* C3: no duplicate trigger: between two consecutive Purchases, at rows    *)
(* i < j, some row k with i < k <= j set a new all-time high or emitted a  *)
(* Sale; no row emits two Purchases, and no Purchase follows another at an *)
(* unchanged all-time high without a Sale in between.                      *)
(***************************************************************************)
C3_NoDuplicateTrigger ==
    \A n \in 1..(Len(purchases) - 1) :
        LET i == purchases[n].date
            j == purchases[n + 1].date
        IN  /\ i < j
            /\ \E k \in (i + 1)..j :
                   \/ marks[k].new_high
                   \/ \E m \in 1..Len(sales) : sales[m].date = k
            /\ purchases[n + 1].all_time_high = purchases[n].all_time_high =>
                   \E m \in 1..Len(sales) : sales[m].date \in (i + 1)..j

\* two Purchases, the second on a row that is not the next one
C3_Witness ==
    /\ Len(purchases) >= 2
    /\ purchases[2].date > purchases[1].date + 1

(***************************************************************************)
(* C4: every Purchase records as dollars spent A * log2(k + 2), k being    *)
(* the number of Sales emitted before it, and that recorded spend is the   *)
(* size the acquired BTC was computed from.                                *)
(***************************************************************************)
C4_DollarsSpentIsPurchaseSize ==
    \A j \in 1..Len(events) :
        events[j].kind = "purchase" =>
            LET p == events[j].ev
            IN  /\ p.dollars_spent = RMul(dollar_amount, Log2(SalesUpTo(j) + 2))
                /\ p.dollars_spent = RMul(p.btc_purchased, p.price)

(***************************************************************************)
(* C5: every Purchase fills at the row's low and acquires                  *)
(* (A * log2(k + 2)) / low BTC, k being the number of Sales emitted so far *)
(* (a Sale on the same row included); holdings grow by exactly that.       *)
(***************************************************************************)
C5_PurchaseFill ==
    [][PurchaseStep =>
        LET p == Last(purchases')
            row == Last(data')
            before == IF SaleStep
                         THEN RSub(current_btc_holdings, Last(sales').btc_sold)
                         ELSE current_btc_holdings
        IN  /\ Last(events') = [kind |-> "purchase", ev |-> p]
            /\ p.date = row.date
            /\ p.price = row.low
            /\ p.btc_purchased =
                   RDiv(RMul(dollar_amount,
                             Log2(SalesIn(events', Len(events')) + 2)), row.low)
            /\ current_btc_holdings' = RAdd(before, p.btc_purchased)
      ]_vars

\* a Purchase sized after two Sales, on the row of the second Sale
C5_Witness ==
    /\ Len(purchases) >= 3
    /\ Len(sales) = 2
    /\ Last(events).kind = "purchase"
    /\ Last(purchases).date = Last(sales).date
    /\ Last(purchases).btc_purchased = RDiv(RMul(dollar_amount, Float(2)), Last(data).low)

(***************************************************************************)
(* C6: a Sale is emitted only while ready_to_sell is true and clears it    *)
(* whatever holdings remain; so between two consecutive Sales there is a   *)
(* Purchase, the first Sale follows a Purchase, and in every prefix of the *)
(* run the Sales are at most as many as the Purchases.                     *)
(***************************************************************************)
C6_OneSalePerPurchase ==
    /\ [][SaleStep =>
            /\ ready_to_sell
            /\ (~ PurchaseStep) => ~ ready_to_sell'
         ]_vars
    /\ [](\A j \in 1..Len(events) :
            /\ SalesUpTo(j) <= j - SalesUpTo(j)
            /\ events[j].kind = "sale" =>
                   /\ j > 1
                   /\ events[j - 1].kind = "purchase")

\* after a Sale that left holdings, a later row reaches the sell target again
\* and sells nothing
C6_Witness ==
    /\ Running
    /\ Len(sales) >= 1
    /\ Last(sales).date < Len(data)
    /\ RLt(Zero, current_btc_holdings)
    /\ ~ ready_to_sell
    /\ RLeq(sell_target, Last(data).high)
    /\ ~ Last(marks).sold

(***************************************************************************)
(* C7: every Sale fills at the row's high, which is at least the sell      *)
(* target; it sells holdings * s of the holdings held just before it,      *)
(* records proceeds sold * high and remaining holdings - sold              *)
(* = holdings * (1 - s), and leaves the holdings at that remaining value.  *)
(***************************************************************************)
C7_SaleFill ==
    [][SaleStep =>
        LET s == Last(sales')
            row == Last(data')
            after == IF PurchaseStep
                        THEN RSub(current_btc_holdings', Last(purchases').btc_purchased)
                        ELSE current_btc_holdings'
        IN  /\ s.date = row.date
            /\ s.price = row.high
            /\ RLeq(sell_target, row.high)
            /\ s.btc_sold = RMul(current_btc_holdings, sell_fraction)
            /\ s.dollars_received = RMul(s.btc_sold, row.high)
            /\ s.btc_remaining = RSub(current_btc_holdings, s.btc_sold)
            /\ s.btc_remaining = RMul(current_btc_holdings, RSub(One, sell_fraction))
            /\ after = s.btc_remaining
      ]_vars

\* a Sale of half the holdings
C7_Witness ==
    /\ Len(sales) >= 1
    /\ sell_fraction = Rat(1, 2)
    /\ RLt(Zero, Last(sales).btc_remaining)
    /\ Last(sales).btc_remaining = Last(sales).btc_sold

(***************************************************************************)
(* C8: the sell target is captured at purchase time and changed by nothing *)
(* else: a Purchase sets it to (all-time high at that Purchase) * p, a new *)
(* high or a Sale leaves it alone, and a Sale triggers against p times the *)
(* all-time high recorded by the most recent Purchase.                     *)
(***************************************************************************)
C8_SellTargetCapturedAtPurchase ==
    [][/\ PurchaseStep =>
            /\ sell_target' = RMul(all_time_high', profit_fraction)
            /\ sell_target' = RMul(Last(purchases').all_time_high, profit_fraction)
       /\ (~ PurchaseStep) => sell_target' = sell_target
       /\ SaleStep =>
            /\ Len(purchases) >= 1
            /\ sell_target = RMul(Last(purchases).all_time_high, profit_fraction)
            /\ RLeq(RMul(Last(purchases).all_time_high, profit_fraction),
                    Last(data').high)
      ]_vars

\* a Sale on a row whose new all-time high is above the one the target was
\* captured from
C8_Witness ==
    /\ Len(sales) >= 1
    /\ Len(purchases) = 1
    /\ Last(marks).sold
    /\ RLt(purchases[1].all_time_high, Last(sales).all_time_high)
    /\ sell_target = RMul(purchases[1].all_time_high, profit_fraction)
    /\ RLt(sell_target, RMul(all_time_high, profit_fraction))

(***************************************************************************)
(* C9: over all emitted events, Purchases and Sales together in emission   *)
(* order, the recorded all_time_high never decreases.                      *)
(***************************************************************************)
C9_RecordedHighMonotone ==
    \A j \in 2..Len(events) :
        RLeq(events[j - 1].ev.all_time_high, events[j].ev.all_time_high)

\* an event recorded at a higher all-time high than the one before it, whose
\* row came after a row with a lower high
C9_Witness ==
    /\ Len(events) >= 2
    /\ RLt(events[1].ev.all_time_high, Last(events).ev.all_time_high)
    /\ \E k \in 2..Len(data) : RLt(data[k].high, data[k - 1].high)

(***************************************************************************)
(* C10: after any prefix of rows (their highs are positive) the running    *)
(* all-time high is the maximum high of the rows processed so far, the     *)
(* first row setting it from the seed 0; it never decreases from one row   *)
(* to the next.                                                            *)
(***************************************************************************)
\* the largest high among the first k rows
MaxHigh(k) ==
    CHOOSE h \in {data[i].high : i \in 1..k} :
        \A i \in 1..k : RLeq(data[i].high, h)

C10_RunningHighIsMaximum ==
    Running =>
        /\ Len(marks) = Len(data)
        /\ \A k \in 1..Len(data) :
               /\ RLt(Zero, data[k].high)
               /\ marks[k].ath = MaxHigh(k)
               /\ k > 1 => RLeq(marks[k - 1].ath, marks[k].ath)
        /\ Len(data) = 0 => all_time_high = Zero
        /\ Len(data) > 0 =>
               /\ marks[1].new_high
               /\ all_time_high = MaxHigh(Len(data))

\* a row below the all-time high, then a row that raises it
C10_Witness ==
    /\ Len(data) >= 3
    /\ RLt(data[2].high, data[1].high)
    /\ RLt(data[1].high, data[3].high)
    /\ all_time_high = data[3].high

(***************************************************************************)
(* C11: the BTC holdings are never negative: with positive prices, valid   *)
(* fractions and a positive dollar amount, holdings >= 0 in every state,   *)
(* and so are every Sale's remaining holdings and every Purchase's         *)
(* cumulative holdings.                                                    *)
(***************************************************************************)
C11_HoldingsNonNegative ==
    Running =>
        /\ current_btc_holdings[1] >= 0
        /\ \A n \in 1..Len(sales) : sales[n].btc_remaining[1] >= 0
        /\ \A n \in 1..Len(purchases) : purchases[n].total_btc_after_purchase[1] >= 0

\* a Sale of everything has left the holdings at exactly 0
C11_Witness ==
    /\ sell_fraction = One
    /\ Len(sales) >= 1
    /\ current_btc_holdings = Zero
    /\ Last(sales).btc_remaining = Zero
    /\ RLt(Zero, dollar_amount)
    /\ \A k \in 1..Len(data) : RLt(Zero, data[k].low)

(***************************************************************************)
(* C12: the holdings are derivable from the emitted events: at every point *)
(* they equal the sum of btc_purchased over the Purchases so far minus the *)
(* sum of btc_sold over the Sales so far, and the holdings figure recorded *)
(* in each event equals that difference up to and including the event.     *)
(***************************************************************************)
\* BTC bought minus BTC sold over the first j events emitted
RECURSIVE Net(_)
Net(j) ==
    IF j = 0 THEN Zero
    ELSE IF events[j].kind = "purchase"
            THEN RAdd(Net(j - 1), events[j].ev.btc_purchased)
            ELSE RSub(Net(j - 1), events[j].ev.btc_sold)

\* lines 131 and 139: the sum of one field over an event list
RECURSIVE Total(_, _)
Total(list, field) ==
    IF list = <<>> THEN Zero
    ELSE RAdd(Total(SubSeq(list, 1, Len(list) - 1), field), Last(list)[field])

C12_HoldingsDerivable ==
    Running =>
        /\ current_btc_holdings = Net(Len(events))
        /\ current_btc_holdings =
               RSub(Total(purchases, "btc_purchased"), Total(sales, "btc_sold"))
        /\ \A j \in 1..Len(events) :
               IF events[j].kind = "purchase"
                  THEN events[j].ev.total_btc_after_purchase = Net(j)
                  ELSE events[j].ev.btc_remaining = Net(j)

\* a Purchase, a Sale of half and a second Purchase
C12_Witness ==
    /\ Len(events) >= 3
    /\ events[1].kind = "purchase"
    /\ events[2].kind = "sale"
    /\ events[3].kind = "purchase"
    /\ sell_fraction = Rat(1, 2)
    /\ RLt(events[1].ev.btc_purchased, current_btc_holdings)

(***************************************************************************)
(* C13: determinism: a second run on the same rows and the same arguments, *)
(* made after the first, yields the same Purchase and Sale sequences;      *)
(* every run starts from the fresh state (all-time high 0, buying and      *)
(* selling disarmed, holdings 0) whatever the run before left behind.      *)
(***************************************************************************)
C13_RepeatedRunIdentical ==
    run > 1 =>
        /\ (pc = "loop" /\ data = <<>>) =>
               /\ all_time_high = Zero
               /\ ~ allow_purchase
               /\ ~ ready_to_sell
               /\ current_btc_holdings = Zero
               /\ sell_target = Zero
               /\ purchases = <<>> /\ sales = <<>>
        /\ pc = "loop" =>
               /\ Len(events) <= Len(prior.events)
               /\ events = SubSeq(prior.events, 1, Len(events))
        /\ pc \in {"returned", "raised"} =>
               /\ data = prior.data
               /\ result = prior.result
               /\ events = prior.events

\* a repeated run has returned two Purchases and a Sale, after a first run
\* that ended with BTC still held
C13_Witness ==
    /\ run = 2
    /\ pc = "returned"
    /\ Len(result.purchases) >= 2
    /\ Len(result.sales) >= 1
    /\ RLt(Zero, Last(prior.result.purchases).total_btc_after_purchase)
    /\ result.kind = "returned"

(***************************************************************************)
(* C14: scenario A: on the two rows with highs 100, 110 and lows 100, 95,  *)
(* with dip fraction 0.975 and 1000 dollars, the first row emits nothing   *)
(* (its low 100 is above 97.5) and the run emits exactly one Purchase, on  *)
(* the second row, recorded at all-time high 110, price 95 and 1000/95     *)
(* BTC; no Sale is emitted.                                                *)
(***************************************************************************)
ScenarioRow1 == [date |-> 1, high |-> Float(100), low |-> Float(100)]

ScenarioRow2 == [date |-> 2, high |-> Float(110), low |-> Float(95)]

C14_ScenarioA ==
    /\ dip_fraction = Rat(975, 1000)
    /\ dollar_amount = Float(1000)
    /\ (Running /\ data = <<ScenarioRow1>>) =>
           /\ events = <<>>
           /\ purchases = <<>> /\ sales = <<>>
           /\ all_time_high = Float(100)
    /\ (Running /\ data = <<ScenarioRow1, ScenarioRow2>>) =>
           /\ sales = <<>>
           /\ Len(purchases) = 1
           /\ Len(events) = 1
           /\ purchases[1].date = 2
           /\ purchases[1].all_time_high = Float(110)
           /\ purchases[1].price = Float(95)
           /\ purchases[1].btc_purchased = Rat(1000, 95)
           /\ pc = "returned" =>
                  result = [kind |-> "returned", purchases |-> purchases,
                            sales |-> <<>>]

\* the run on the two rows of the scenario has returned its one Purchase
C14_Witness ==
    /\ pc = "returned"
    /\ data = <<ScenarioRow1, ScenarioRow2>>
    /\ Len(result.purchases) = 1
    /\ result.purchases[1].btc_purchased = Rat(200, 19)
    /\ result.sales = <<>>

(***************************************************************************)
(* C15: a malformed row, one with a non-positive low, aborts the run with  *)
(* an error: no run that holds such a row goes on or returns a trade       *)
(* history, and no Purchase is ever emitted at a fill price <= 0.          *)
(***************************************************************************)
C15_MalformedBarAborts ==
    /\ (\E k \in 1..Len(data) : data[k].low[1] <= 0) => pc = "raised"
    /\ \A n \in 1..Len(purchases) : purchases[n].price[1] > 0

\* a step that consumes a row
RowStep == Len(data') = Len(data) + 1

(***************************************************************************)
(* C16: a Purchase is emitted only on a dip: its price is the row's low    *)
(* and is at most d times its recorded all-time high, which already        *)
(* includes that row's own high; a row that sets a new all-time high but   *)
(* whose low is above d times it emits no Purchase and leaves buying armed *)
(* until a later row dips.                                                 *)
(***************************************************************************)
C16_PurchaseOnlyOnDip ==
    /\ [](\A n \in 1..Len(purchases) :
            LET p == purchases[n]
                row == data[p.date]
            IN  /\ p.price = row.low
                /\ RLeq(p.price, RMul(dip_fraction, p.all_time_high))
                /\ RLeq(row.high, p.all_time_high)
                /\ p.all_time_high = marks[p.date].ath)
    /\ [][RowStep =>
            LET row == Last(data')
                dips == RLeq(row.low, RMul(dip_fraction, all_time_high'))
            IN  /\ (RLt(all_time_high, row.high) /\ ~ dips) =>
                       (~ PurchaseStep /\ allow_purchase')
                /\ (allow_purchase /\ ~ dips) => (~ PurchaseStep /\ allow_purchase')
                /\ (allow_purchase /\ dips) => PurchaseStep
         ]_vars

\* the first Purchase is on a row that set no new all-time high: buying had
\* stayed armed since an earlier row that did
C16_Witness ==
    /\ Len(purchases) >= 1
    /\ purchases[1].date >= 2
    /\ ~ marks[purchases[1].date].new_high
    /\ RLt(data[purchases[1].date].high, purchases[1].all_time_high)

(***************************************************************************)
(* C17: every Sale happens on a row that sets a new all-time high: its     *)
(* price, the row's high, equals its recorded all-time high and is above   *)
(* the high of every earlier row; so buying is already armed when the Sale *)
(* arms it.                                                                *)
(***************************************************************************)
C17_SaleOnNewHigh ==
    /\ \A n \in 1..Len(sales) :
           LET s == sales[n]
           IN  /\ s.price = data[s.date].high
               /\ s.price = s.all_time_high
               /\ marks[s.date].new_high
               /\ \A k \in 1..(s.date - 1) : RLt(data[k].high, s.price)
    /\ \A k \in 1..Len(marks) : marks[k].sold => marks[k].new_high

\* a Sale on the third row or later, after a row that raised the all-time
\* high without reaching the sell target
C17_Witness ==
    /\ Len(sales) >= 1
    /\ sales[1].date >= 3
    /\ \E k \in 2..(sales[1].date - 1) :
           /\ marks[k].new_high
           /\ purchases[1].date < k

(***************************************************************************)
(* C18: every Sale is made at a price strictly above the fill price of     *)
(* every Purchase emitted before it, not only the most recent one.         *)
(***************************************************************************)
C18_SaleAboveEarlierPurchases ==
    \A j \in 1..Len(events) :
        events[j].kind = "sale" =>
            \A i \in 1..(j - 1) :
                events[i].kind = "purchase" =>
                    RLt(events[i].ev.price, events[j].ev.price)

\* a Sale after two Purchases made on different rows
C18_Witness ==
    /\ Len(events) >= 3
    /\ events[1].kind = "purchase"
    /\ events[2].kind = "purchase"
    /\ events[3].kind = "sale"
    /\ events[1].ev.date < events[2].ev.date
    /\ events[2].ev.date < events[3].ev.date

(***************************************************************************)
(* C19: with positive lows and a positive dollar amount, ready_to_sell     *)
(* implies holdings > 0 in every state, so the holdings > 0 guard of the   *)
(* sell check never blocks a Sale that ready_to_sell and the sell target   *)
(* allow.                                                                  *)
(***************************************************************************)
C19_ReadyImpliesHoldings ==
    /\ [](ready_to_sell => current_btc_holdings[1] > 0)
    /\ [][(RowStep /\ ready_to_sell /\ RLeq(sell_target, Last(data').high)) =>
            SaleStep]_vars

\* selling is armed again by a Purchase made after a Sale of everything
C19_Witness ==
    /\ sell_fraction = One
    /\ Len(sales) >= 1
    /\ Last(sales).btc_remaining = Zero
    /\ ready_to_sell
    /\ Last(events).kind = "purchase"

(***************************************************************************)
(* C20: the buy-and-sell simulator refines the buy-only variant on         *)
(* purchase triggers: the rows on which it emits a Purchase, with their    *)
(* fill prices and recorded all-time highs, are exactly those of the       *)
(* buy-only algorithm run with the same d on the same rows; and every      *)
(* Purchase emitted before the first Sale acquires A / low BTC as there.   *)
(***************************************************************************)
C20_RefinesBuyOnly ==
    Running =>
        LET v1 == BuyOnly(Len(data))
        IN  /\ all_time_high = v1.ath
            /\ allow_purchase = v1.canBuy
            /\ Len(purchases) = Len(v1.purchases)
            /\ \A n \in 1..Len(purchases) :
                   /\ purchases[n].date = v1.purchases[n].date
                   /\ purchases[n].price = v1.purchases[n].price
                   /\ purchases[n].all_time_high = v1.purchases[n].all_time_high
                   /\ (\A m \in 1..Len(sales) : purchases[n].date < sales[m].date) =>
                          purchases[n].btc_purchased = v1.purchases[n].btc_purchased

\* a Sale and then a Purchase on one row, the Purchase larger than the
\* buy-only one on that row
C20_Witness ==
    /\ Running
    /\ Len(sales) >= 1
    /\ Len(purchases) >= 2
    /\ Last(purchases).date = Last(sales).date
    /\ Len(BuyOnly(Len(data)).purchases) = Len(purchases)
    /\ RLt(Last(BuyOnly(Len(data)).purchases).btc_purchased,
           Last(purchases).btc_purchased)

====
